---- MODULE Spec2Model ----
(***************************************************************************)
(* The terminal of Pixel Pusher OS: utils/file_browser.py (FileBrowser)    *)
(* behind routes/api.py (execute_command).  Python strings are TLA+        *)
(* strings (Len, SubSeq and \o act on them character by character).  The   *)
(* pictographs that open the program's messages are written in ASCII:      *)
(* "[x] " for the cross mark, "[dir] " for the folder, "[file] " for the   *)
(* page.                                                                   *)
(***************************************************************************)
EXTENDS Naturals, Sequences, FiniteSets, TLC

(***************************************************************************)
(* str methods                                                             *)
(***************************************************************************)
Char(s, i) == SubSeq(s, i, i)

\* s[i:] with a 1-based i
From(s, i) == SubSeq(s, i, Len(s))

\* str.startswith(prefix) for a str prefix
StartsWith(s, p) == Len(p) <= Len(s) /\ SubSeq(s, 1, Len(p)) = p

EndsWith(s, p) == Len(p) <= Len(s) /\ SubSeq(s, Len(s) - Len(p) + 1, Len(s)) = p

IsSpace(c) == c = " "

RECURSIVE LStrip(_)
LStrip(s) == IF Len(s) > 0 /\ IsSpace(Char(s, 1)) THEN LStrip(From(s, 2)) ELSE s

RECURSIVE RStrip(_)
RStrip(s) ==
    IF Len(s) > 0 /\ IsSpace(Char(s, Len(s))) THEN RStrip(SubSeq(s, 1, Len(s) - 1)) ELSE s

\* the line as it came, when strip() is left out
NotStripped(s) == s

\* str.strip()
Strip(s) == RStrip(LStrip(s))

\* the index of the first character of s that satisfies IsSpace, Len(s)+1 if none
RECURSIVE FirstSpace(_, _)
FirstSpace(s, i) ==
    IF i > Len(s) THEN i ELSE IF IsSpace(Char(s, i)) THEN i ELSE FirstSpace(s, i + 1)

\* str.split(maxsplit=1) of a stripped, non-empty string: the first word, and
\* what follows the whitespace run after it (nothing: a one-element list)
SplitFirst(s) ==
    LET i == FirstSpace(s, 1)
    IN  IF i > Len(s) THEN <<s>> ELSE <<SubSeq(s, 1, i - 1), LStrip(From(s, i))>>

Upper == <<"A", "B", "C", "D", "E", "F", "G", "H", "I", "J", "K", "L", "M",
           "N", "O", "P", "Q", "R", "S", "T", "U", "V", "W", "X", "Y", "Z">>

Lowercase == <<"a", "b", "c", "d", "e", "f", "g", "h", "i", "j", "k", "l", "m",
               "n", "o", "p", "q", "r", "s", "t", "u", "v", "w", "x", "y", "z">>

LowerChar(c) ==
    IF \E k \in 1..26 : Upper[k] = c
    THEN Lowercase[CHOOSE k \in 1..26 : Upper[k] = c]
    ELSE c

\* str.lower()
RECURSIVE Lower(_)
Lower(s) == IF Len(s) = 0 THEN s ELSE LowerChar(Char(s, 1)) \o Lower(From(s, 2))

\* str.find(sub) as a 1-based index, 0 when sub does not occur
RECURSIVE FindFrom(_, _, _)
FindFrom(s, sub, i) ==
    IF i + Len(sub) - 1 > Len(s) THEN 0
    ELSE IF SubSeq(s, i, i + Len(sub) - 1) = sub THEN i
    ELSE FindFrom(s, sub, i + 1)

Find(s, sub) == FindFrom(s, sub, 1)

\* str.rfind("/") as a 1-based index, 0 when there is no slash
RECURSIVE RFindSlash(_, _)
RFindSlash(s, i) ==
    IF i = 0 THEN 0 ELSE IF Char(s, i) = "/" THEN i ELSE RFindSlash(s, i - 1)

\* str.split("/"): the components between slashes, empty ones kept
RECURSIVE SplitSlash(_)
SplitSlash(s) ==
    LET i == Find(s, "/")
    IN  IF i = 0 THEN <<s>> ELSE <<SubSeq(s, 1, i - 1)>> \o SplitSlash(From(s, i + 1))

\* "/".join(comps)
RECURSIVE JoinSlash(_)
JoinSlash(comps) ==
    IF Len(comps) = 0 THEN ""
    ELSE IF Len(comps) = 1 THEN comps[1]
    ELSE comps[1] \o "/" \o JoinSlash(Tail(comps))

(***************************************************************************)
(* os.path (posixpath)                                                     *)
(***************************************************************************)
\* os.path.join(a, b)
PathJoin(a, b) ==
    IF StartsWith(b, "/") THEN b
    ELSE IF Len(a) = 0 \/ EndsWith(a, "/") THEN a \o b
    ELSE a \o "/" \o b

\* the loop of posixpath.normpath over the split components
RECURSIVE NormComps(_, _, _)
NormComps(comps, new, rooted) ==
    IF Len(comps) = 0 THEN new
    ELSE LET c == Head(comps)
             rest == Tail(comps)
         IN  IF c = "" \/ c = "." THEN NormComps(rest, new, rooted)
             ELSE IF c # ".."
                     \/ (~rooted /\ Len(new) = 0)
                     \/ (Len(new) > 0 /\ new[Len(new)] = "..")
                  THEN NormComps(rest, Append(new, c), rooted)
             ELSE IF Len(new) > 0
                  THEN NormComps(rest, SubSeq(new, 1, Len(new) - 1), rooted)
             ELSE NormComps(rest, new, rooted)

\* the leading slashes normpath keeps: none, one, or two when there are exactly two
InitialSlashes(path) ==
    IF ~StartsWith(path, "/") THEN ""
    ELSE IF StartsWith(path, "//") /\ ~StartsWith(path, "///") THEN "//"
    ELSE "/"

\* path or '.'
OrDot(path) == IF path = "" THEN "." ELSE path

\* os.path.normpath(path)
NormPath(path) ==
    IF Len(path) = 0 THEN "."
    ELSE LET Rebuild(slashes) ==
                 OrDot(slashes \o JoinSlash(NormComps(SplitSlash(path), <<>>, slashes # "")))
         IN  Rebuild(InitialSlashes(path))

RECURSIVE RStripSlash(_)
RStripSlash(s) ==
    IF Len(s) > 0 /\ Char(s, Len(s)) = "/" THEN RStripSlash(SubSeq(s, 1, Len(s) - 1)) ELSE s

\* os.path.dirname(p)
DirName(p) ==
    LET Cut(head) == IF head # "" /\ RStripSlash(head) # "" THEN RStripSlash(head) ELSE head
    IN  Cut(SubSeq(p, 1, RFindSlash(p, Len(p))))

\* the non-empty components of an absolute, normalised path
RECURSIVE NonEmpty(_)
NonEmpty(comps) ==
    IF Len(comps) = 0 THEN <<>>
    ELSE IF Head(comps) = "" THEN NonEmpty(Tail(comps))
    ELSE <<Head(comps)>> \o NonEmpty(Tail(comps))

\* len(os.path.commonprefix([a, b])) on component lists
RECURSIVE CommonLen(_, _)
CommonLen(a, b) ==
    IF Len(a) = 0 \/ Len(b) = 0 \/ Head(a) # Head(b) THEN 0
    ELSE 1 + CommonLen(Tail(a), Tail(b))

\* os.path.relpath(path, start), both absolute
RelPath(path, start) ==
    LET Rel(pl, sl) ==
            LET Up(i) == [k \in 1..(Len(sl) - i) |-> ".."] \o SubSeq(pl, i + 1, Len(pl))
            IN  Up(CommonLen(sl, pl))
        Text(rel) == IF Len(rel) = 0 THEN "." ELSE JoinSlash(rel)
    IN  Text(Rel(NonEmpty(SplitSlash(NormPath(path))), NonEmpty(SplitSlash(NormPath(start)))))

(***************************************************************************)
(* Configuration and the host                                              *)
(***************************************************************************)
\* str(Config.BASE_DIR): the directory that holds config.py
BASE_DIR == "/srv/app"

\* Config.BASE_DIR is a pathlib.Path object, not a str
BASE_DIR_is_str == FALSE

\* self.max_history
max_history == 100

\* the directories of the host, as normalised absolute paths
Dirs == {"/", "/etc", "/srv", "/srv/app", "/srv/app/logs", "/srv/app/logs/old",
         "/srv/app-evil"}

\* s * n
RECURSIVE Repeat(_, _)
Repeat(s, n) ==
    LET Twice(h) == h \o h
    IN  IF n = 0 THEN ""
        ELSE IF n % 2 = 0 THEN Twice(Repeat(s, n \div 2))
        ELSE Twice(Repeat(s, n \div 2)) \o s

\* the regular files of the host, with the text that
\* open(..., encoding='utf-8').read() gives
FileText == [p \in {"/srv/app/config.py", "/srv/app/logs/shot.PNG", "/srv/app/logs/a.mp3",
                    "/srv/app/blob.bin", "/srv/app-evil/secret.txt", "/etc/passwd",
                    "/srv/app/logs/big.txt"} |->
               CASE p = "/srv/app/config.py" -> "import os"
                 [] p = "/srv/app/logs/big.txt" -> Repeat("0123456789", 501)
                 [] p = "/srv/app-evil/secret.txt" -> "hunter2"
                 [] p = "/etc/passwd" -> "root:x:0:0"
                 [] OTHER -> ""]

\* the files whose bytes are not UTF-8: reading them raises UnicodeDecodeError
NotUtf8 == {"/srv/app/blob.bin"}

Files == DOMAIN FileText

\* os.path.exists, os.path.isdir, os.path.isfile of a normalised path
Exists(p) == p \in Dirs \cup Files

IsDir(p) == p \in Dirs

IsFile(p) == p \in Files

\* what the host queries and the network give: everything answers, or the
\* query fails (psutil raises, urlopen raises)
Envs == {"up", "down"}

(***************************************************************************)
(* What a call gives: a returned str, or a raised exception                *)
(***************************************************************************)
Ret(s) == [kind |-> "return", value |-> s]

Raise(e) == [kind |-> "raise", value |-> e]

\* a handler's outcome: its result and self.current_dir after it
Outcome(r, d) == [res |-> r, dir |-> d]

\* str.startswith(str(Config.BASE_DIR)): the test with a str prefix
StartsWithBaseDirStr(s) == IF StartsWith(s, BASE_DIR) THEN "True" ELSE "False"

\* str.startswith(Config.BASE_DIR): a prefix that is no str (nor a tuple of
\* str) raises TypeError; a str prefix is compared character by character
StartsWithBaseDir(s) ==
    IF BASE_DIR_is_str THEN IF StartsWith(s, BASE_DIR) THEN "True" ELSE "False"
    ELSE "TypeError"

TypeErrorText == "startswith first arg must be str or a tuple of str, not PosixPath"

(***************************************************************************)
(* FileBrowser: the handlers                                               *)
(***************************************************************************)
\* _pwd_command
PwdCommand(cur) ==
    LET Shown(relative_path) == IF relative_path # "." THEN "/" \o relative_path ELSE "/"
    IN  Shown(RelPath(cur, BASE_DIR))

valid_themes == <<"default", "blue", "green", "red", "yellow", "magenta", "cyan",
                  "white", "matrix", "neon", "ocean", "sunset", "forest">>

valid_effects == <<"matrix", "rain", "stars", "snow", "particles">>

valid_games == <<"dino", "snake", "clicker", "memory">>

Range(seq) == {seq[i] : i \in 1..Len(seq)}

\* ", ".join(names)
RECURSIVE JoinComma(_)
JoinComma(names) ==
    IF Len(names) = 0 THEN ""
    ELSE IF Len(names) = 1 THEN names[1]
    ELSE names[1] \o ", " \o JoinComma(Tail(names))

\* _color_command that puts theme_name, not its lower-cased form, in the signal
ColorCommandAsTyped(theme_name) ==
    IF theme_name = ""
    THEN "Available themes: " \o JoinComma(valid_themes) \o "\nUsage: color <theme_name>"
    ELSE IF Lower(theme_name) \in Range(valid_themes) THEN "__COLOR__::" \o theme_name
    ELSE "Unknown theme '" \o theme_name \o "'. Available: " \o JoinComma(valid_themes)

\* _color_command
ColorCommand(theme_name) ==
    IF theme_name = ""
    THEN "Available themes: " \o JoinComma(valid_themes) \o "\nUsage: color <theme_name>"
    ELSE LET Known(theme) ==
                 IF theme \in Range(valid_themes) THEN "__COLOR__::" \o theme
                 ELSE "Unknown theme '" \o theme_name \o "'. Available: "
                      \o JoinComma(valid_themes)
         IN  Known(Lower(theme_name))

\* _effect_command
EffectCommand(effect_name) ==
    IF effect_name = ""
    THEN "Available effects: " \o JoinComma(valid_effects)
         \o "\nUsage: effect <effect_name>"
    ELSE LET Known(effect) ==
                 IF effect \in Range(valid_effects) THEN "__EFFECT__::" \o effect
                 ELSE "Unknown effect '" \o effect_name \o "'. Available: "
                      \o JoinComma(valid_effects)
         IN  Known(Lower(effect_name))

\* the file name that the usage text of _wallpaper_command gives
wallpaper_names == <<"sunset.jpg">>

\* _wallpaper_command that looks the name up in a list, as _color_command does
WallpaperCommandListed(filename) ==
    IF filename = "" THEN "Usage: wallpaper <filename>\nExample: wallpaper sunset.jpg"
    ELSE IF Lower(filename) \in Range(wallpaper_names) THEN "__WALLPAPER__::" \o filename
    ELSE "Unknown wallpaper '" \o filename \o "'. Available: " \o JoinComma(wallpaper_names)

\* _wallpaper_command
WallpaperCommand(filename) ==
    IF filename = "" THEN "Usage: wallpaper <filename>\nExample: wallpaper sunset.jpg"
    ELSE "__WALLPAPER__::" \o filename

\* _game_command
GameCommand(game_name) ==
    IF game_name = ""
    THEN "Available games: " \o JoinComma(valid_games) \o "\nUsage: game <game_name>"
    ELSE LET Known(game) ==
                 IF game \in Range(valid_games) THEN "__GAME__::" \o game
                 ELSE "Unknown game '" \o game_name \o "'. Available: "
                      \o JoinComma(valid_games)
         IN  Known(Lower(game_name))

\* _curl_command: the response body is the host's answer, here "pong"
CurlCommand(url, env) ==
    IF url = "" THEN "Usage: curl <url>\nExample: curl https://api.github.com"
    ELSE LET Fetch(u) ==
                 IF env = "up" THEN "Response from " \o u \o ":\n" \o "pong"
                 ELSE "Failed to fetch " \o u \o ": timed out"
         IN  Fetch(IF StartsWith(url, "http://") \/ StartsWith(url, "https://")
                   THEN url ELSE "https://" \o url)

\* _ping_command
PingCommand(host, env) ==
    IF host = "" THEN "Usage: ping <hostname>\nExample: ping google.com"
    ELSE IF env = "up" THEN host \o " is reachable (response time: 1ms)"
    ELSE host \o " is unreachable: timed out"

\* _system_info: psutil's figures, or the text of the except branch
SystemInfo(env) ==
    IF env = "up" THEN "SYSTEM INFORMATION\n" \o "========================================"
    ELSE "Error gathering system information: psutil"

\* _uptime_command
UptimeCommand(env) ==
    IF env = "up" THEN "System uptime: 1 hour" ELSE "Unable to determine system uptime"

\* _help_command, _about_command, _contact_command: fixed texts, here their
\* first lines
HelpCommand == "==========\n PIXEL PUSHER OS TERMINAL"

AboutCommand == "PIXEL PUSHER OS v2.0"

ContactCommand == "Contact Information:"

\* the characters of the names used here, in code point order
CodePoints == "-./0123456789ABCDEFGHIJKLMNOPQRSTUVWXYZ_abcdefghijklmnopqrstuvwxyz"

\* a < b as Python compares str
RECURSIVE StrLess(_, _)
StrLess(a, b) ==
    IF Len(b) = 0 THEN FALSE
    ELSE IF Len(a) = 0 THEN TRUE
    ELSE IF Char(a, 1) = Char(b, 1) THEN StrLess(From(a, 2), From(b, 2))
    ELSE Find(CodePoints, Char(a, 1)) < Find(CodePoints, Char(b, 1))

\* sorted(names)
RECURSIVE Sorted(_)
Sorted(names) ==
    IF names = {} THEN <<>>
    ELSE LET m == CHOOSE n \in names : \A o \in names \ {n} : StrLess(n, o)
         IN  <<m>> \o Sorted(names \ {m})

\* os.listdir(dir)
ListDir(dir) ==
    {From(q, RFindSlash(q, Len(q)) + 1) : q \in {r \in Dirs \cup Files : r # dir /\ DirName(r) = dir}}

\* str(n) of a natural number
RECURSIVE Str(_)
Str(n) == IF n < 10 THEN Char("0123456789", n + 1) ELSE Str(n \div 10) \o Char("0123456789", (n % 10) + 1)

\* _format_file_size, for sizes below 1024
FormatFileSize(size) == IF size = 0 THEN "0 B" ELSE Str(size) \o " B"

\* f"{s:>8}"
RECURSIVE PadLeft8(_)
PadLeft8(s) == IF Len(s) >= 8 THEN s ELSE PadLeft8(" " \o s)

\* os.stat(item_path).st_size of a file
SizeOf(p) == Len(FileText[p])

RECURSIVE SumSizes(_, _)
SumSizes(dir, names) ==
    IF Len(names) = 0 THEN 0
    ELSE (IF IsDir(PathJoin(dir, Head(names))) THEN 0 ELSE SizeOf(PathJoin(dir, Head(names))))
         + SumSizes(dir, Tail(names))

\* one line of the listing; the permission bits and the modification time of
\* os.stat are left out
ItemLine(dir, item_name) ==
    LET Line(item_path) ==
            IF IsDir(item_path) THEN "[dir] DIR  " \o PadLeft8("     --") \o " " \o item_name
            ELSE "[file] FILE " \o PadLeft8(FormatFileSize(SizeOf(item_path))) \o " " \o item_name
    IN  Line(PathJoin(dir, item_name))

RECURSIVE JoinLines(_)
JoinLines(ls) ==
    IF Len(ls) = 0 THEN ""
    ELSE IF Len(ls) = 1 THEN ls[1]
    ELSE ls[1] \o "\n" \o JoinLines(Tail(ls))

AccessDeniedPath == "[x] Access denied: Path outside allowed directory"

AccessDeniedFile == "[x] Access denied: File outside allowed directory"

\* _list_command, the try block: the listing of an existing directory
Listing(cur, target_dir) ==
    LET Footer(n, total_size) ==
            "\nTotal: " \o Str(n) \o " items"
            \o (IF total_size > 0 THEN " - " \o FormatFileSize(total_size) \o " total size"
                ELSE "")
        Build(names, header) ==
            IF Len(names) > 0
            THEN header \o "\n----\n"
                 \o JoinLines([i \in 1..Len(names) |-> ItemLine(target_dir, names[i])])
                 \o Footer(Len(names), SumSizes(target_dir, names))
            ELSE header \o "\n----\n" \o "(empty directory)"
    IN  Build(Sorted(ListDir(target_dir)), "[dir] Contents of " \o PwdCommand(cur))

\* _list_command that assigns the target to self.current_dir before it checks it
ListCommandEnters(cur, path) ==
    LET Checked(target_dir, inside) ==
            IF inside = "TypeError" THEN Outcome(Raise(TypeErrorText), target_dir)
            ELSE IF inside = "False" THEN Outcome(Ret(AccessDeniedPath), target_dir)
            ELSE Outcome(Ret("[dir] Contents of " \o PwdCommand(target_dir)), target_dir)
        Target(target_dir) == Checked(target_dir, StartsWithBaseDir(target_dir))
    IN  Target(NormPath(IF path # "" THEN PathJoin(cur, path) ELSE cur))

\* _list_command
ListCommand(cur, path) ==
    LET Checked(target_dir, inside) ==
            IF inside = "TypeError" THEN Outcome(Raise(TypeErrorText), cur)
            ELSE IF inside = "False" THEN Outcome(Ret(AccessDeniedPath), cur)
            ELSE IF ~Exists(target_dir)
                 THEN Outcome(Ret("[x] Directory not found: "
                                  \o (IF path # "" THEN path ELSE ".")), cur)
            ELSE IF ~IsDir(target_dir) THEN Outcome(Ret("[x] Not a directory: " \o path), cur)
            ELSE Outcome(Ret(Listing(cur, target_dir)), cur)
        Target(target_dir) == Checked(target_dir, StartsWithBaseDir(target_dir))
    IN  Target(NormPath(IF path # "" THEN PathJoin(cur, path) ELSE cur))

\* _change_directory that assigns new_path to self.current_dir before it checks it
ChangeDirectoryAssignsFirst(cur, path) ==
    LET Up(parent_dir, inside) ==
            IF inside = "TypeError" THEN Outcome(Raise(TypeErrorText), cur)
            ELSE IF inside = "True"
                 THEN Outcome(Ret("[dir] Changed to: " \o PwdCommand(parent_dir)), parent_dir)
            ELSE Outcome(Ret("[x] Already at root directory"), cur)
        Parent(parent_dir) ==
            Up(parent_dir, IF parent_dir # "" THEN StartsWithBaseDir(parent_dir) ELSE "False")
        To(new_path, inside) ==
            IF inside = "TypeError" THEN Outcome(Raise(TypeErrorText), new_path)
            ELSE IF inside = "False" THEN Outcome(Ret(AccessDeniedPath), new_path)
            ELSE Outcome(Ret("[dir] Changed to: " \o PwdCommand(new_path)), new_path)
        New(new_path) == To(new_path, StartsWithBaseDir(new_path))
    IN  IF path = "" THEN Outcome(Ret("Usage: cd <directory>\nExample: cd documents"), cur)
        ELSE IF path = ".." THEN Parent(DirName(cur))
        ELSE New(NormPath(PathJoin(cur, path)))

\* _change_directory whose ".." branch takes the parent without testing it
ChangeDirectoryUpUnguarded(cur, path) ==
    LET To(new_path, inside) ==
            IF inside = "TypeError" THEN Outcome(Raise(TypeErrorText), cur)
            ELSE IF inside = "False" THEN Outcome(Ret(AccessDeniedPath), cur)
            ELSE IF ~Exists(new_path) THEN Outcome(Ret("[x] Directory not found: " \o path), cur)
            ELSE IF ~IsDir(new_path) THEN Outcome(Ret("[x] Not a directory: " \o path), cur)
            ELSE Outcome(Ret("[dir] Changed to: " \o PwdCommand(new_path)), new_path)
        New(new_path) == To(new_path, StartsWithBaseDir(new_path))
    IN  IF path = "" THEN Outcome(Ret("Usage: cd <directory>\nExample: cd documents"), cur)
        ELSE IF path = ".."
             THEN Outcome(Ret("[dir] Changed to: " \o PwdCommand(DirName(cur))), DirName(cur))
        ELSE New(NormPath(PathJoin(cur, path)))

\* _change_directory
ChangeDirectory(cur, path) ==
    LET Up(parent_dir, inside) ==
            IF inside = "TypeError" THEN Outcome(Raise(TypeErrorText), cur)
            ELSE IF inside = "True"
                 THEN Outcome(Ret("[dir] Changed to: " \o PwdCommand(parent_dir)), parent_dir)
            ELSE Outcome(Ret("[x] Already at root directory"), cur)
        Parent(parent_dir) ==
            Up(parent_dir, IF parent_dir # "" THEN StartsWithBaseDir(parent_dir) ELSE "False")
        To(new_path, inside) ==
            IF inside = "TypeError" THEN Outcome(Raise(TypeErrorText), cur)
            ELSE IF inside = "False" THEN Outcome(Ret(AccessDeniedPath), cur)
            ELSE IF ~Exists(new_path) THEN Outcome(Ret("[x] Directory not found: " \o path), cur)
            ELSE IF ~IsDir(new_path) THEN Outcome(Ret("[x] Not a directory: " \o path), cur)
            ELSE Outcome(Ret("[dir] Changed to: " \o PwdCommand(new_path)), new_path)
        New(new_path) == To(new_path, StartsWithBaseDir(new_path))
    IN  IF path = "" THEN Outcome(Ret("Usage: cd <directory>\nExample: cd documents"), cur)
        ELSE IF path = ".." THEN Parent(DirName(cur))
        ELSE New(NormPath(PathJoin(cur, path)))

\* str.rfind(".") as a 1-based index, 0 when there is no dot
RECURSIVE RFindDot(_, _)
RFindDot(s, i) ==
    IF i = 0 THEN 0 ELSE IF Char(s, i) = "." THEN i ELSE RFindDot(s, i - 1)

\* os.path.splitext(p)[1]
SplitExt(p) ==
    LET Ext(sep, dot) ==
            IF dot > sep /\ \E k \in (sep + 1)..(dot - 1) : Char(p, k) # "."
            THEN From(p, dot) ELSE ""
    IN  Ext(RFindSlash(p, Len(p)), RFindDot(p, Len(p)))

image_ext == {".png", ".jpg", ".jpeg", ".gif", ".bmp", ".webp"}

video_ext == {".mp4", ".avi", ".mov", ".mkv", ".webm"}

audio_ext == {".mp3", ".wav", ".ogg", ".m4a", ".flac"}

\* the length above which _read_file cuts the text
truncate_at == 5000

\* _read_file, the text branch: what is shown of the content read
Shown(content) ==
    IF Len(content) > truncate_at
    THEN SubSeq(content, 1, truncate_at)
         \o "\n... (file truncated, use editor to view full content)"
    ELSE content

\* _read_file
ReadFile(cur, filename) ==
    LET Media(sentinel, file_path) ==
            Outcome(Ret(sentinel \o "::" \o RelPath(file_path, BASE_DIR)), cur)
        Typed(file_path, ext) ==
            IF ext \in image_ext THEN Media("__IMAGE__", file_path)
            ELSE IF ext \in video_ext THEN Media("__VIDEO__", file_path)
            ELSE IF ext \in audio_ext THEN Media("__AUDIO__", file_path)
            ELSE IF file_path \in NotUtf8
                 THEN Outcome(Ret("[x] Cannot display binary file: " \o filename), cur)
            ELSE Outcome(Ret("[file] Content of " \o filename \o ":\n----\n"
                             \o Shown(FileText[file_path])), cur)
        Checked(file_path, inside) ==
            IF inside = "TypeError" THEN Outcome(Raise(TypeErrorText), cur)
            ELSE IF inside = "False" THEN Outcome(Ret(AccessDeniedFile), cur)
            ELSE IF ~Exists(file_path) THEN Outcome(Ret("[x] File not found: " \o filename), cur)
            ELSE IF ~IsFile(file_path) THEN Outcome(Ret("[x] Not a file: " \o filename), cur)
            ELSE Typed(file_path, SplitExt(Lower(filename)))
        Path(file_path) == Checked(file_path, StartsWithBaseDir(file_path))
    IN  IF filename = "" THEN Outcome(Ret("Usage: cat <filename>\nExample: cat readme.txt"), cur)
        ELSE Path(NormPath(PathJoin(cur, filename)))

(***************************************************************************)
(* The os.path calls that cd, ls and cat make, in the order they make them *)
(***************************************************************************)
Step(fn, path) == [fn |-> fn, path |-> path]

\* the calls on the file system
FsCalls == {"exists", "isdir", "isfile", "listdir", "open"}

\* normpath and the security check, then tests, which only a passed check
\* lets run
CheckedThen(path, tests) ==
    <<Step("normpath", path), Step("startswith", path)>>
        \o (IF StartsWithBaseDir(path) = "True" THEN tests ELSE <<>>)

\* _change_directory with os.path.exists asked before the security check
ChangeDirectoryStepsExistsFirst(cur, path) ==
    LET New(new_path) ==
            <<Step("normpath", new_path), Step("exists", new_path),
              Step("startswith", new_path)>>
    IN  IF path = "" THEN <<>>
        ELSE IF path = ".." THEN <<Step("startswith", DirName(cur))>>
        ELSE New(NormPath(PathJoin(cur, path)))

\* _change_directory
ChangeDirectorySteps(cur, path) ==
    LET New(new_path) ==
            CheckedThen(new_path,
                        <<Step("exists", new_path)>>
                            \o (IF Exists(new_path) THEN <<Step("isdir", new_path)>>
                                ELSE <<>>))
    IN  IF path = "" THEN <<>>
        ELSE IF path = ".."
             THEN (IF DirName(cur) # "" THEN <<Step("startswith", DirName(cur))>> ELSE <<>>)
        ELSE New(NormPath(PathJoin(cur, path)))

\* _list_command
ListCommandSteps(cur, path) ==
    LET Target(target_dir) ==
            CheckedThen(target_dir,
                        <<Step("exists", target_dir)>>
                            \o (IF Exists(target_dir) THEN <<Step("isdir", target_dir)>>
                                ELSE <<>>)
                            \o (IF IsDir(target_dir) THEN <<Step("listdir", target_dir)>>
                                ELSE <<>>))
    IN  Target(NormPath(IF path # "" THEN PathJoin(cur, path) ELSE cur))

\* the sentinel _read_file gives for an extension, "" for any other
MediaSentinelOf(ext) ==
    IF ext \in image_ext THEN "__IMAGE__"
    ELSE IF ext \in video_ext THEN "__VIDEO__"
    ELSE IF ext \in audio_ext THEN "__AUDIO__"
    ELSE ""

\* _read_file
ReadFileSteps(cur, filename) ==
    LET Path(file_path) ==
            CheckedThen(file_path,
                        <<Step("exists", file_path)>>
                            \o (IF Exists(file_path) THEN <<Step("isfile", file_path)>>
                                ELSE <<>>)
                            \o (IF IsFile(file_path)
                                   /\ MediaSentinelOf(SplitExt(Lower(filename))) = ""
                                THEN <<Step("open", file_path)>> ELSE <<>>))
    IN  IF filename = "" THEN <<>> ELSE Path(NormPath(PathJoin(cur, filename)))

(***************************************************************************)
(* FileBrowser.execute                                                     *)
(***************************************************************************)
\* the methods that class FileBrowser defines
ClassMethods == {"__init__", "execute", "_add_to_history", "_help_command",
                 "_about_command", "_contact_command", "_system_info", "_format_bytes",
                 "_uptime_command", "_pwd_command", "_color_command", "_effect_command",
                 "_wallpaper_command", "_curl_command", "_ping_command", "_game_command",
                 "_list_command", "_format_file_size", "_change_directory", "_read_file"}

\* the dict literal command_handlers, in the order it is evaluated: the verb
\* and the attribute of self it reads ("<lambda>": a lambda, no attribute)
command_handlers ==
    << <<"help", "_help_command">>, <<"menu", "_help_command">>,
       <<"about", "_about_command">>, <<"contact", "_contact_command">>,
       <<"sysinfo", "_system_info">>, <<"time", "<lambda>">>, <<"date", "<lambda>">>,
       <<"uptime", "_uptime_command">>, <<"whoami", "<lambda>">>,
       <<"clear", "<lambda>">>, <<"echo", "<lambda>">>, <<"pwd", "_pwd_command">>,
       <<"color", "_color_command">>, <<"effect", "_effect_command">>,
       <<"wallpaper", "_wallpaper_command">>, <<"curl", "_curl_command">>,
       <<"ping", "_ping_command">>, <<"explorer", "<lambda>">>,
       <<"game", "_game_command">>, <<"ls", "_list_command">>,
       <<"dir", "_list_command">>, <<"cd", "_change_directory">>,
       <<"mkdir", "_make_directory">>, <<"touch", "_create_file">>,
       <<"del", "_delete_file">>, <<"rm", "_delete_file">>, <<"cat", "_read_file">>,
       <<"edit", "_edit_file">>, <<"rename", "_rename_file">>, <<"mv", "_rename_file">>,
       <<"properties", "_file_properties">>, <<"find", "_find_files">>,
       <<"ps", "_process_list">>, <<"kill", "_kill_process">>,
       <<"df", "_disk_usage">>, <<"free", "_memory_info">> >>

Verbs == {command_handlers[i][1] : i \in 1..Len(command_handlers)}

MethodOf(verb) ==
    command_handlers[CHOOSE i \in 1..Len(command_handlers) : command_handlers[i][1] = verb][2]

\* the entries of the literal whose self.<name> is no attribute of the object
MissingAttributes ==
    {i \in 1..Len(command_handlers) :
        command_handlers[i][2] # "<lambda>" /\ command_handlers[i][2] \notin ClassMethods}

\* evaluating the literal: the first missing attribute raises AttributeError
AttributeErrorText ==
    LET first == CHOOSE i \in MissingAttributes : \A j \in MissingAttributes : i <= j
    IN  "'FileBrowser' object has no attribute '" \o command_handlers[first][2] \o "'"

\* command_handlers[action](argument), for the handler named method
HandleBy(method, verb, argument, cur, env) ==
    CASE method = "_help_command" -> Outcome(Ret(HelpCommand), cur)
      [] method = "_about_command" -> Outcome(Ret(AboutCommand), cur)
      [] method = "_contact_command" -> Outcome(Ret(ContactCommand), cur)
      [] method = "_system_info" -> Outcome(Ret(SystemInfo(env)), cur)
      [] method = "_uptime_command" -> Outcome(Ret(UptimeCommand(env)), cur)
      [] method = "_pwd_command" -> Outcome(Ret(PwdCommand(cur)), cur)
      [] method = "_color_command" -> Outcome(Ret(ColorCommand(argument)), cur)
      [] method = "_effect_command" -> Outcome(Ret(EffectCommand(argument)), cur)
      [] method = "_wallpaper_command" -> Outcome(Ret(WallpaperCommand(argument)), cur)
      [] method = "_curl_command" -> Outcome(Ret(CurlCommand(argument, env)), cur)
      [] method = "_ping_command" -> Outcome(Ret(PingCommand(argument, env)), cur)
      [] method = "_game_command" -> Outcome(Ret(GameCommand(argument)), cur)
      [] method = "_list_command" -> ListCommand(cur, argument)
      [] method = "_change_directory" -> ChangeDirectory(cur, argument)
      [] method = "_read_file" -> ReadFile(cur, argument)
      [] verb = "time" -> Outcome(Ret("12:00:00"), cur)
      [] verb = "date" -> Outcome(Ret("2024-01-01 Monday"), cur)
      [] verb = "whoami" -> Outcome(Ret("pixel-pusher"), cur)
      [] verb = "clear" -> Outcome(Ret("__CLEAR__"), cur)
      [] verb = "echo" -> Outcome(Ret(argument), cur)
      [] verb = "explorer" -> Outcome(Ret("__EXPLORER__"), cur)
      [] OTHER -> Outcome(Raise("no such method"), cur)

\* command_handlers[action](argument)
Handle(verb, argument, cur, env) == HandleBy(MethodOf(verb), verb, argument, cur, env)

\* execute, the try block around the handler
TryHandler(action, h) ==
    IF h.res.kind = "raise"
    THEN Outcome(Ret("Error executing '" \o action \o "': " \o h.res.value), h.dir)
    ELSE h

\* execute, from the split of the stripped command to its return
Dispatch(command, cur, env) ==
    LET Route(action, argument) ==
            IF MissingAttributes # {} THEN Outcome(Raise(AttributeErrorText), cur)
            ELSE IF action \in Verbs
                 THEN TryHandler(action, Handle(action, argument, cur, env))
            ELSE Outcome(Ret("Command '" \o action
                             \o "' not found. Type 'help' for available commands."), cur)
        Parts(parts) == Route(Lower(parts[1]), IF Len(parts) > 1 THEN parts[2] ELSE "")
    IN  Parts(SplitFirst(command))

\* _add_to_history that stores the command and nothing with it
AddToHistoryCommandOnly(history, command, now, cur) ==
    LET appended == Append(history, [command |-> command])
    IN  IF Len(appended) > max_history
        THEN SubSeq(appended, Len(appended) - max_history + 1, Len(appended))
        ELSE appended

\* _add_to_history with the slice [:max_history], which keeps the oldest entries
AddToHistoryKeepOldest(history, command, now, cur) ==
    LET appended == Append(history, [command |-> command, timestamp |-> now,
                                     working_dir |-> cur])
    IN  IF Len(appended) > max_history THEN SubSeq(appended, 1, max_history) ELSE appended

\* _add_to_history
AddToHistory(history, command, now, cur) ==
    LET appended == Append(history, [command |-> command, timestamp |-> now,
                                     working_dir |-> cur])
    IN  IF Len(appended) > max_history
        THEN SubSeq(appended, Len(appended) - max_history + 1, Len(appended))
        ELSE appended

(***************************************************************************)
(* routes/api.py: what execute_command makes of the result                 *)
(***************************************************************************)
\* result.rsplit("::", 1)[1]: the text after the last "::"
RECURSIVE AfterLastSep(_)
AfterLastSep(result) ==
    IF Find(From(result, Find(result, "::") + 2), "::") = 0
    THEN From(result, Find(result, "::") + 2)
    ELSE AfterLastSep(From(result, Find(result, "::") + 2))

\* result.split("::", 1)[1]
AfterSep(result) == From(result, Find(result, "::") + 2)

Data(k, v) == [key |-> k, value |-> v]

Rule(test, token, key, payload) ==
    [test |-> test, token |-> token, key |-> key, payload |-> payload]

\* the if/elif chain over result, in its order: the comparison, the token,
\* the key of response_data, and whether the text after "::" is its value
DecodeRules ==
    << Rule("==", "__CLEAR__", "clear", FALSE),
       Rule("startswith", "__COLOR__::", "color_theme", TRUE),
       Rule("startswith", "__EFFECT__::", "start_effect", TRUE),
       Rule("startswith", "__WALLPAPER__::", "wallpaper", TRUE),
       Rule("startswith", "__EXPLORER__", "explorer", FALSE),
       Rule("startswith", "__GAME__::", "game_start", TRUE),
       Rule("startswith", "__IMAGE__::", "image", TRUE),
       Rule("startswith", "__VIDEO__::", "video", TRUE),
       Rule("startswith", "__AUDIO__::", "audio", TRUE) >>

\* the rules whose condition result meets
Matching(result) ==
    {i \in 1..Len(DecodeRules) :
        IF DecodeRules[i].test = "==" THEN result = DecodeRules[i].token
        ELSE StartsWith(result, DecodeRules[i].token)}

\* response_data
Decode(result) ==
    LET Taken(r) == Data(r.key, IF r.payload THEN AfterSep(result) ELSE "True")
        First(m) == IF m = {} THEN Data("output", result)
                    ELSE Taken(DecodeRules[CHOOSE i \in m : \A j \in m : i <= j])
    IN  First(Matching(result))

\* the JSON body and status code execute_command answers with
Response(out) ==
    IF out.kind = "raise" THEN [status |-> 500, data |-> Data("error", out.value)]
    ELSE [status |-> 200, data |-> Decode(out.value)]

(***************************************************************************)
(* Inputs and bounds                                                       *)
(***************************************************************************)
\* the logged-in users that send commands
Users == {"alice", "bob"}

\* the request threads of the server (app.run serves each request on its own)
Threads == {1, 2}

\* command lines sent to /command/<command>
RawCmds == {"  ", "pwd", "cd ../app-evil", "echo __COLOR__::red", "Frobnicate x",
            "game chess", "echo  a  b", "rm logs", "del nosuch", "mkdir projects", "ls",
            "PWD", " pwd "}

\* command lines given to execute when the object is used from one thread
ExecCmds == {"  ", "cd ..", "cd ../app-evil"}

\* command lines of the long run that fills the history
HistoryCmds == {"pwd", " "}

\* path arguments given to cd, ls and cat
PathTokens == {"", "..", ".", "logs", "logs/old", "logs/..", "nosuch", "config.py",
               "../app-evil", "/srv/app-evil", "logs/../../app-evil", "../../../etc",
               "/etc", "../app-evil/secret.txt", "logs/shot.PNG", "logs/a.mp3", "blob.bin",
               "logs/big.txt"}

\* arguments given to the other handlers
TextArgs == {"", "blue", "Blue", "purple", "rain", "RAIN", "dino", "Snake", "chess",
             "sunset.jpg", "Sunset.JPG", "a::b::c.png", "hello  world", "__COLOR__::red",
             "__CLEAR__", "example.org"}

\* the verbs whose handlers read neither the directory tree nor current_dir
PlainVerbs == {"help", "menu", "about", "contact", "sysinfo", "time", "date", "uptime",
               "whoami", "clear", "echo", "color", "effect", "wallpaper", "curl", "ping",
               "explorer", "game"}

\* commands recorded in a run of Spec or SpecMethods
MaxCmds == 2

\* commands recorded in a run of SpecHistory
MaxHistCount == 102

(***************************************************************************)
(* State                                                                   *)
(***************************************************************************)
VARIABLES
    current_dir,      \* file_browser.current_dir
    command_history,  \* file_browser.command_history
    clock,            \* what time.time() gives next
    issued,           \* every command given to _add_to_history so far
    req,              \* per thread: the request it serves and how far it is
    call              \* the last method called on the object, and what it gave

vars == <<current_dir, command_history, clock, issued, req, call>>

NoResult == [kind |-> "none", value |-> ""]

Idle == [pc |-> "idle", user |-> "", raw |-> "", out |-> NoResult,
         status |-> 0, data |-> Data("", "")]

\* no cd call went before
NoPrev == [arg |-> "", before |-> ""]

NoCall == [op |-> "", arg |-> "", res |-> NoResult, before |-> BASE_DIR,
           steps |-> <<>>, prev |-> NoPrev]

\* FileBrowser.__init__, and file_browser = FileBrowser() at import
Init ==
    /\ current_dir = BASE_DIR
    /\ command_history = <<>>
    /\ clock = 1
    /\ issued = <<>>
    /\ req = [t \in Threads |-> Idle]
    /\ call = NoCall

\* the commands that requests in flight have yet to record
Pending == Cardinality({t \in Threads : req[t].pc = "execute" /\ Strip(req[t].raw) # ""})

(***************************************************************************)
(* The server: one request per thread, all on the one file_browser         *)
(***************************************************************************)
\* a request of user u for /command/<raw> reaches execute_command
Arrive(t, u, raw) ==
    /\ req[t].pc \in {"idle", "done"}
    /\ Len(issued) + Pending < MaxCmds
    /\ req' = [req EXCEPT ![t] = [Idle EXCEPT !.pc = "execute", !.user = u, !.raw = raw]]
    /\ UNCHANGED <<current_dir, command_history, clock, issued, call>>

\* execute that does not call _add_to_history before it dispatches
ExecuteEnterNoPush(t) ==
    /\ req[t].pc = "execute"
    /\ \E command \in {Strip(req[t].raw)} :
           IF command = ""
           THEN /\ req' = [req EXCEPT ![t].pc = "respond", ![t].out = Ret("")]
                /\ UNCHANGED <<command_history, clock, issued>>
           ELSE /\ issued' = Append(issued, [command |-> command, timestamp |-> clock])
                /\ req' = [req EXCEPT ![t].pc = "dispatch"]
                /\ UNCHANGED <<command_history, clock>>
    /\ UNCHANGED <<current_dir, call>>

\* execute, to the end of _add_to_history
ExecuteEnter(t) ==
    /\ req[t].pc = "execute"
    /\ \E command \in {Strip(req[t].raw)} :
           IF command = ""
           THEN /\ req' = [req EXCEPT ![t].pc = "respond", ![t].out = Ret("")]
                /\ UNCHANGED <<command_history, clock, issued>>
           ELSE /\ command_history' = AddToHistory(command_history, command, clock, current_dir)
                /\ clock' = clock + 1
                /\ issued' = Append(issued, [command |-> command, timestamp |-> clock])
                /\ req' = [req EXCEPT ![t].pc = "dispatch"]
    /\ UNCHANGED <<current_dir, call>>

\* execute, from the split to its return or to the exception that leaves it
ExecuteDispatch(t, env) ==
    /\ req[t].pc = "dispatch"
    /\ \E o \in {Dispatch(Strip(req[t].raw), current_dir, env)} :
           /\ current_dir' = o.dir
           /\ req' = [req EXCEPT ![t].pc = "respond", ![t].out = o.res]
    /\ UNCHANGED <<command_history, clock, issued, call>>

\* execute_command, after execute: the special codes, or the except branch
Respond(t) ==
    /\ req[t].pc = "respond"
    /\ \E r \in {Response(req[t].out)} :
           req' = [req EXCEPT ![t].pc = "done", ![t].status = r.status, ![t].data = r.data]
    /\ UNCHANGED <<current_dir, command_history, clock, issued, call>>

Next ==
    \/ \E t \in Threads, u \in Users, raw \in RawCmds : Arrive(t, u, raw)
    \/ \E t \in Threads : ExecuteEnter(t)
    \/ \E t \in Threads, env \in Envs : ExecuteDispatch(t, env)
    \/ \E t \in Threads : Respond(t)

Spec == Init /\ [][Next]_vars

(***************************************************************************)
(* The object used from one thread: execute and each handler, called on it *)
(***************************************************************************)
Called(op, arg, res) ==
    [op |-> op, arg |-> arg, res |-> res, before |-> current_dir,
     steps |-> <<>>, prev |-> NoPrev]

\* file_browser.execute(raw), start to end
CallExecute(raw, env, bound) ==
    /\ \E command \in {Strip(raw)} :
           IF command = ""
           THEN /\ call' = Called("execute", raw, Ret(""))
                /\ UNCHANGED <<current_dir, command_history, clock, issued>>
           ELSE /\ Len(issued) < bound
                /\ command_history' = AddToHistory(command_history, command, clock, current_dir)
                /\ clock' = clock + 1
                /\ issued' = Append(issued, [command |-> command, timestamp |-> clock])
                /\ \E o \in {Dispatch(command, current_dir, env)} :
                       /\ current_dir' = o.dir
                       /\ call' = Called("execute", raw, o.res)
    /\ UNCHANGED req

\* file_browser._change_directory(path)
CallChangeDirectory(path) ==
    /\ \E o \in {ChangeDirectory(current_dir, path)} :
           /\ current_dir' = o.dir
           /\ call' = [Called("cd", path, o.res) EXCEPT
                          !.steps = ChangeDirectorySteps(current_dir, path),
                          !.prev = IF call.op = "cd"
                                   THEN [arg |-> call.arg, before |-> call.before]
                                   ELSE NoPrev]
    /\ UNCHANGED <<command_history, clock, issued, req>>

\* file_browser._list_command(path)
CallListCommand(path) ==
    /\ \E o \in {ListCommand(current_dir, path)} :
           /\ current_dir' = o.dir
           /\ call' = [Called("ls", path, o.res) EXCEPT
                          !.steps = ListCommandSteps(current_dir, path)]
    /\ UNCHANGED <<command_history, clock, issued, req>>

\* file_browser._read_file(filename)
CallReadFile(filename) ==
    /\ \E o \in {ReadFile(current_dir, filename)} :
           /\ current_dir' = o.dir
           /\ call' = [Called("cat", filename, o.res) EXCEPT
                          !.steps = ReadFileSteps(current_dir, filename)]
    /\ UNCHANGED <<command_history, clock, issued, req>>

\* file_browser._pwd_command('')
CallPwd ==
    /\ call' = Called("pwd", "", Ret(PwdCommand(current_dir)))
    /\ UNCHANGED <<current_dir, command_history, clock, issued, req>>

\* the other handlers of the table, called with an argument
CallPlain(verb, arg, env) ==
    /\ \E o \in {Handle(verb, arg, current_dir, env)} :
           /\ current_dir' = o.dir
           /\ call' = Called(verb, arg, o.res)
    /\ UNCHANGED <<command_history, clock, issued, req>>

NextMethods ==
    \/ \E raw \in ExecCmds, env \in Envs : CallExecute(raw, env, MaxCmds)
    \/ \E path \in PathTokens : CallChangeDirectory(path)
    \/ \E path \in PathTokens : CallListCommand(path)
    \/ \E filename \in PathTokens : CallReadFile(filename)
    \/ CallPwd
    \/ \E verb \in PlainVerbs, arg \in TextArgs, env \in Envs : CallPlain(verb, arg, env)

SpecMethods == Init /\ [][NextMethods]_vars

\* execute called again and again, past max_history commands
NextHistory == \E raw \in HistoryCmds : CallExecute(raw, "up", MaxHistCount)

SpecHistory == Init /\ [][NextHistory]_vars

(***************************************************************************)
(* The sandbox: C1, C2, C3, C10                                            *)
(***************************************************************************)
\* the components of an absolute path
Components(p) == NonEmpty(SplitSlash(NormPath(p)))

\* p is BASE_DIR or below it, component by component
InSandbox(p) ==
    /\ Len(Components(BASE_DIR)) <= Len(Components(p))
    /\ SubSeq(Components(p), 1, Len(Components(BASE_DIR))) = Components(BASE_DIR)

\* the canonical path a token names, seen from cur
TargetOf(cur, token) == NormPath(PathJoin(cur, token))

\* C1: a path token given to cd, ls or cat either names a path that is the
\* root or below it, or the call returns the access-denied message (".."
\* apart, which is clamped at the root).
C1_InsideOrDenied ==
    (call.op \in {"cd", "ls", "cat"} /\ call.arg \notin {"", ".."})
        => \/ InSandbox(TargetOf(call.before, call.arg))
           \/ call.res \in {Ret(AccessDeniedPath), Ret(AccessDeniedFile)}

\* C2: in every reachable state current_dir is the root or a descendant of it.
C2_CurrentDirInSandbox == InSandbox(current_dir)

\* a cd towards the sibling whose name starts with the root's was made
C2_CdToSiblingTried ==
    /\ call.op = "cd"
    /\ call.arg = "../app-evil"
    /\ call.before = BASE_DIR
    /\ InSandbox(current_dir)

\* C3: a cd that returns an error leaves current_dir alone, and
\* cd ../../../etc at the root returns the access-denied message, with pwd
\* still "/" after it.
C3_CdErrorKeepsDir ==
    /\ (call.op = "cd" /\ call.res.kind = "return" /\ StartsWith(call.res.value, "[x] "))
           => current_dir = call.before
    /\ (call.op = "cd" /\ call.arg = "../../../etc" /\ call.before = BASE_DIR)
           => /\ call.res = Ret(AccessDeniedPath)
              /\ current_dir = BASE_DIR
              /\ PwdCommand(current_dir) = "/"

\* C10: cd .. made at the root, however often, leaves current_dir at the root.
C10_CdUpAtRootStays ==
    /\ (call.op = "cd" /\ call.arg = ".." /\ call.before = BASE_DIR)
           => current_dir = BASE_DIR
    /\ (call.op = "execute" /\ Strip(call.arg) = "cd .." /\ call.before = BASE_DIR)
           => current_dir = BASE_DIR

\* cd .. was made at the root, directly and through execute
C10_CdUpAtRootMade ==
    /\ call.op = "cd"
    /\ call.arg = ".."
    /\ call.before = BASE_DIR
    /\ Len(command_history) > 0
    /\ command_history[Len(command_history)].command = "cd .."

(***************************************************************************)
(* The boundary of execute: C4, C5, C9                                     *)
(***************************************************************************)
\* C4: whatever the input line, execute returns a string: no exception
\* leaves it.
C4_ExecuteNeverRaises == \A t \in Threads : req[t].out.kind # "raise"

Sentinels == {"__CLEAR__", "__COLOR__", "__EFFECT__", "__WALLPAPER__", "__EXPLORER__",
              "__GAME__", "__IMAGE__", "__VIDEO__", "__AUDIO__"}

\* the handlers that answer with signals
SignalVerbs == {"clear", "color", "effect", "wallpaper", "explorer", "game", "cat"}

Encoded(c) ==
    CASE c.op = "clear" -> {Data("clear", "True")}
      [] c.op = "explorer" -> {Data("explorer", "True")}
      [] c.op = "color" /\ Lower(c.arg) \in Range(valid_themes)
           -> {Data("color_theme", Lower(c.arg))}
      [] c.op = "effect" /\ Lower(c.arg) \in Range(valid_effects)
           -> {Data("start_effect", Lower(c.arg))}
      [] c.op = "game" /\ Lower(c.arg) \in Range(valid_games)
           -> {Data("game_start", Lower(c.arg))}
      [] c.op = "wallpaper" /\ c.arg # "" -> {Data("wallpaper", c.arg)}
      [] c.op = "cat" /\ c.res.kind = "return" /\ StartsWith(c.res.value, "__IMAGE__::")
           -> {Data("image", RelPath(TargetOf(c.before, c.arg), BASE_DIR))}
      [] c.op = "cat" /\ c.res.kind = "return" /\ StartsWith(c.res.value, "__VIDEO__::")
           -> {Data("video", RelPath(TargetOf(c.before, c.arg), BASE_DIR))}
      [] c.op = "cat" /\ c.res.kind = "return" /\ StartsWith(c.res.value, "__AUDIO__::")
           -> {Data("audio", RelPath(TargetOf(c.before, c.arg), BASE_DIR))}
      [] OTHER -> {}

\* C9: decoding an encoded signal gives back its kind and its payload, and
\* the signal meets the condition of exactly one kind.
C9_DecodeInvertsEncode ==
    \A d \in Encoded(call) :
        /\ call.res.kind = "return"
        /\ Decode(call.res.value) = d
        /\ Cardinality(Matching(call.res.value)) = 1

\* a wallpaper signal whose payload itself holds "::" was produced
C9_PayloadWithSeparator ==
    /\ call.op = "wallpaper"
    /\ call.arg = "a::b::c.png"
    /\ call.res = Ret("__WALLPAPER__::a::b::c.png")

(***************************************************************************)
(* Sessions: C6, C7                                                        *)
(***************************************************************************)
\* what the terminal of user u works on: the one module-level file_browser
SessionOf(u) == [current_dir |-> current_dir, history |-> command_history]

Min(a, b) == IF a < b THEN a ELSE b

\* C8: after count recorded commands the history holds the min(count, N) most
\* recent ones, oldest first.
C8_HistoryIsLastN ==
    /\ Len(command_history) = Min(Len(issued), max_history)
    /\ \A i \in 1..Len(command_history) :
           /\ command_history[i].command
                  = issued[Len(issued) - Len(command_history) + i].command
           /\ command_history[i].timestamp
                  = issued[Len(issued) - Len(command_history) + i].timestamp

\* more than N commands were recorded, so entries were evicted
C8_Evicted == Len(issued) = max_history + 2 /\ Len(command_history) = max_history

(***************************************************************************)
(* cd .. at the root, and verbs outside the table: C11, C12                *)
(***************************************************************************)
\* C11: cd .. made at the root is a silent no-op: the call returns, and what
\* it returns is no error message.
C11_CdUpAtRootIsSilent ==
    (\/ call.op = "cd" /\ call.arg = ".." /\ call.before = BASE_DIR
     \/ call.op = "execute" /\ Strip(call.arg) = "cd .." /\ call.before = BASE_DIR)
        => /\ call.res.kind = "return"
           /\ ~StartsWith(call.res.value, "[x] ")
           /\ current_dir = BASE_DIR

\* the verb of a command line that is not blank
VerbOf(raw) == Lower(SplitFirst(Strip(raw))[1])

\* the requests whose execute call is over
Executed == {t \in Threads : req[t].pc \in {"respond", "done"}}

\* C12: for a verb that the table does not hold, execute returns the text
\* that names the command as not found and points to help, and current_dir
\* stays as it was.
C12_UnknownVerbNotFound ==
    \A t \in Executed :
        (Strip(req[t].raw) # "" /\ VerbOf(req[t].raw) \notin Verbs)
            => /\ req[t].out = Ret("Command '" \o VerbOf(req[t].raw)
                                   \o "' not found. Type 'help' for available commands.")
               /\ current_dir = BASE_DIR

(***************************************************************************)
(* The signals of color, effect, wallpaper and game: C13, C14              *)
(***************************************************************************)
\* the sentinel of the signal a handler answers with
SentinelOf(op) ==
    CASE op = "color" -> "__COLOR__"
      [] op = "effect" -> "__EFFECT__"
      [] op = "wallpaper" -> "__WALLPAPER__"
      [] op = "game" -> "__GAME__"

\* the call made last was one of these handlers and it answered with its signal
SignalGiven ==
    /\ call.op \in {"color", "effect", "wallpaper", "game"}
    /\ call.res.kind = "return"
    /\ StartsWith(call.res.value, SentinelOf(call.op) \o "::")

\* C13: when color, effect, wallpaper or game answers with a signal, the
\* payload after "::" is the argument character for character as it was typed.
C13_PayloadAsTyped ==
    SignalGiven => call.res.value = SentinelOf(call.op) \o "::" \o call.arg

\* C13 as amended: the payload is the argument in lower case for color, effect
\* and game, and the argument as typed for wallpaper.
C13_PayloadLowerCased ==
    SignalGiven
        => call.res.value
               = SentinelOf(call.op) \o "::"
                 \o (IF call.op = "wallpaper" THEN call.arg ELSE Lower(call.arg))

\* color was called with a theme typed with a capital and answered with its signal
C13_CapitalTheme ==
    /\ call.op = "color"
    /\ call.arg = "Blue"
    /\ call.res = Ret("__COLOR__::blue")

\* the allow-list of a handler
AllowList(op) ==
    CASE op = "color" -> valid_themes
      [] op = "effect" -> valid_effects
      [] op = "game" -> valid_games

\* the argument of a command line that is not blank
ArgOf(raw) ==
    LET Second(parts) == IF Len(parts) > 1 THEN parts[2] ELSE ""
    IN  Second(SplitFirst(Strip(raw)))

\* the requests past execute whose line had this verb
ExecutedWith(verbs) ==
    {t \in Executed : Strip(req[t].raw) # "" /\ VerbOf(req[t].raw) \in verbs}

\* C14: color, effect and game given no argument, or a name that is not in
\* the verb's allow-list, return a text that lists the valid names and is no
\* signal: it begins with no sentinel and execute_command shows it as output.
C14_InvalidNameListsValid ==
    \A t \in ExecutedWith({"color", "effect", "game"}) :
        Lower(ArgOf(req[t].raw)) \notin Range(AllowList(VerbOf(req[t].raw)))
            => /\ req[t].out.kind = "return"
               /\ Find(req[t].out.value, JoinComma(AllowList(VerbOf(req[t].raw)))) > 0
               /\ \A k \in Sentinels : ~StartsWith(req[t].out.value, k)
               /\ Decode(req[t].out.value) = Data("output", req[t].out.value)

(***************************************************************************)
(* cat on media files, pwd: C15, C16                                       *)
(***************************************************************************)
\* the sentinel cat answers with for a file name, "" for a name of no media
MediaSentinel(filename) ==
    LET Of(ext) == IF ext \in image_ext THEN "__IMAGE__"
                   ELSE IF ext \in video_ext THEN "__VIDEO__"
                   ELSE IF ext \in audio_ext THEN "__AUDIO__"
                   ELSE ""
    IN  Of(SplitExt(Lower(filename)))

\* C15: cat on an existing regular file inside the root whose name has a
\* registered image, video or audio extension, in any letter case, returns
\* the signal of that kind with the file's path relative to the root.
C15_CatMediaSignal ==
    (/\ call.op = "cat"
     /\ call.arg # ""
     /\ InSandbox(TargetOf(call.before, call.arg))
     /\ IsFile(TargetOf(call.before, call.arg))
     /\ MediaSentinel(call.arg) # "")
        => call.res = Ret(MediaSentinel(call.arg) \o "::"
                          \o RelPath(TargetOf(call.before, call.arg), BASE_DIR))

\* C16: pwd returns current_dir relative to the root with a leading "/":
\* "/" at the root, so on a fresh session, "/<relative path>" elsewhere; and
\* pwd leaves current_dir alone.
C16_PwdIsVirtualPath ==
    /\ \A t \in ExecutedWith({"pwd"}) :
           req[t].out = Ret(IF current_dir = BASE_DIR THEN "/"
                            ELSE "/" \o RelPath(current_dir, BASE_DIR))
    /\ (call.op = "pwd"
             => /\ call.res = Ret(IF call.before = BASE_DIR THEN "/"
                                  ELSE "/" \o RelPath(call.before, BASE_DIR))
                /\ current_dir = call.before)

(***************************************************************************)
(* Blank lines, echo, rm, ls: C17 to C20                                   *)
(***************************************************************************)
\* a line of nothing but whitespace, the empty line included
IsBlank(raw) == \A i \in 1..Len(raw) : IsSpace(Char(raw, i))

C18_EchoKeepsArgument ==
    \A t \in ExecutedWith({"echo"}) :
        /\ req[t].out = Ret(ArgOf(req[t].raw))
        /\ req[t].raw = "echo  a  b" => req[t].out = Ret("a  b")

\* the path that the argument of a command line names
NamedBy(raw) == TargetOf(current_dir, ArgOf(raw))

\* C19: rm and del on a directory fail with a message, the directory stays,
\* and the message is not the one that rm gives for a name that does not exist.
C19_RmRefusesDirectory ==
    \A t \in ExecutedWith({"rm", "del"}) :
        IsDir(NamedBy(req[t].raw))
            => /\ req[t].out.kind = "return"
               /\ req[t].out.value # ""
               /\ \A u \in ExecutedWith({"rm", "del"}) :
                      ~Exists(NamedBy(req[u].raw)) => req[u].out # req[t].out

\* C20: ls on an existing empty directory inside the root returns the
\* empty-directory message: a text that is not empty and is no error message.
C20_LsEmptyDirectory ==
    (/\ call.op = "ls"
     /\ InSandbox(TargetOf(call.before, call.arg))
     /\ IsDir(TargetOf(call.before, call.arg))
     /\ ListDir(TargetOf(call.before, call.arg)) = {})
        => /\ call.res.kind = "return"
           /\ Find(call.res.value, "(empty directory)") > 0
           /\ ~StartsWith(call.res.value, "[x] ")

(***************************************************************************)
(* mkdir then ls: C21                                                      *)
(***************************************************************************)
\* the history holds command first and, right after it, command second
RecordedInTurn(first, second) ==
    \E i \in 1..(Len(command_history) - 1) :
        /\ command_history[i].command = first
        /\ command_history[i + 1].command = second

Rejected ==
    \/ call.res.kind = "raise"
    \/ call.res \in {Ret(AccessDeniedPath), Ret(AccessDeniedFile)}

\* C22: cd, ls and cat apply the security check to the canonical path, and
\* before any call on the file system; a token that does not pass causes no
\* call on the file system.
C22_CheckBeforeAccess ==
    call.op \in {"cd", "ls", "cat"}
        => /\ \A i \in 1..Len(call.steps) :
                  call.steps[i].fn = "startswith"
                      => NormPath(call.steps[i].path) = call.steps[i].path
           /\ call.arg \notin {"", ".."}
                  => \E i \in 1..Len(call.steps) :
                         call.steps[i] = Step("startswith", TargetOf(call.before, call.arg))
           /\ \A i \in 1..Len(call.steps) :
                  call.steps[i].fn \in FsCalls
                      => \E j \in 1..(i - 1) : call.steps[j].fn = "startswith"
           /\ Rejected => \A i \in 1..Len(call.steps) : call.steps[i].fn \notin FsCalls

\* cat was called with a token that leaves the root through the sibling, and
\* turned it down after normpath and the check alone
C22_CatOutsideRejected ==
    /\ call.op = "cat"
    /\ call.arg = "../app-evil/secret.txt"
    /\ Rejected
    /\ call.steps = <<Step("normpath", "/srv/app-evil/secret.txt"),
                      Step("startswith", "/srv/app-evil/secret.txt")>>

TypedVerb(raw) == SplitFirst(Strip(raw))[1]

TruncationMarker == "\n... (file truncated, use editor to view full content)"

\* the file a cat call names is a text file inside the root
CatOfText ==
    /\ call.op = "cat"
    /\ call.arg # ""
    /\ InSandbox(TargetOf(call.before, call.arg))
    /\ IsFile(TargetOf(call.before, call.arg))
    /\ TargetOf(call.before, call.arg) \notin NotUtf8
    /\ MediaSentinel(call.arg) = ""

\* C25: cat on a text file longer than the threshold returns its first
\* threshold characters and then the truncation marker; a text of at most
\* the threshold is returned whole, without the marker.
C25_CatTruncates ==
    CatOfText
        => /\ call.res.kind = "return"
           /\ IF Len(FileText[TargetOf(call.before, call.arg)]) > truncate_at
              THEN EndsWith(call.res.value,
                            SubSeq(FileText[TargetOf(call.before, call.arg)], 1, truncate_at)
                                \o TruncationMarker)
              ELSE EndsWith(call.res.value, FileText[TargetOf(call.before, call.arg)])

\* C26: for a path inside the root, ls answers not-found when nothing is
\* there, not-a-directory when what is there is no directory, and lists
\* only a directory; current_dir stays as it was in each case.
C26_LsFailureOrder ==
    (call.op = "ls" /\ InSandbox(TargetOf(call.before, call.arg)))
        => /\ call.res.kind = "return"
           /\ current_dir = call.before
           /\ IF ~Exists(TargetOf(call.before, call.arg))
              THEN StartsWith(call.res.value, "[x] Directory not found: ")
              ELSE IF ~IsDir(TargetOf(call.before, call.arg))
                   THEN StartsWith(call.res.value, "[x] Not a directory: ")
              ELSE StartsWith(call.res.value, "[dir] Contents of ")

(***************************************************************************)
(* What the history holds: C27, C30                                        *)
(***************************************************************************)
\* C27: a history entry is the raw input line of a command, as it was given
\* to execute, and nothing else.
C27_EntryIsRawLine ==
    \A i \in 1..Len(command_history) :
        command_history[i] \in {[command |-> raw] : raw \in RawCmds}

\* command is raw without the whitespace around it
StrippedFrom(command, raw) ==
    /\ ~IsBlank(command)
    /\ ~IsSpace(Char(command, 1))
    /\ ~IsSpace(Char(command, Len(command)))
    /\ \E a \in 1..(Len(raw) - Len(command) + 1) :
           /\ SubSeq(raw, a, a + Len(command) - 1) = command
           /\ IsBlank(SubSeq(raw, 1, a - 1))
           /\ IsBlank(From(raw, a + Len(command)))

\* C27 as amended: a history entry holds the input line without the
\* whitespace around it, and with it the time and the current_dir of the
\* moment it was recorded.
C27_EntryIsStrippedLine ==
    \A i \in 1..Len(command_history) :
        /\ DOMAIN command_history[i] = {"command", "timestamp", "working_dir"}
        /\ \E raw \in RawCmds : StrippedFrom(command_history[i].command, raw)
        /\ command_history[i].timestamp \in 1..clock
        /\ command_history[i].working_dir = BASE_DIR

\* a line given with blanks around it was recorded
C27_PaddedLineRecorded ==
    \E t \in Threads :
        /\ req[t].raw = " pwd "
        /\ req[t].pc = "dispatch"
        /\ Len(command_history) = 1
        /\ command_history[1].command = "pwd"

SubdirectoriesOf(dir) == {n \in ListDir(dir) : IsDir(PathJoin(dir, n))}

LastEntry(history) == history[Len(history)]

\* C30: execute records a line that is not blank once, before it dispatches
\* it and whatever becomes of it then, and the working_dir of the entry is
\* the current_dir of before the command.
C30_PushedBeforeDispatch ==
    [][\A t \in Threads :
          /\ (req[t].pc = "execute" /\ ~IsBlank(req[t].raw) /\ req'[t].pc # "execute")
                 => /\ req'[t].pc = "dispatch"
                    /\ Len(command_history') = Len(command_history) + 1
                    /\ SubSeq(command_history', 1, Len(command_history)) = command_history
                    /\ StrippedFrom(LastEntry(command_history').command, req[t].raw)
                    /\ LastEntry(command_history').working_dir = current_dir
          /\ (req[t].pc = "dispatch" /\ req'[t].pc # "dispatch")
                 => command_history' = command_history
          /\ (req[t].pc = "respond" /\ req'[t].pc # "respond")
                 => command_history' = command_history]_vars

\* a line with a verb that the table does not hold was recorded, and execute
\* then raised on it
C30_UnknownVerbRecorded ==
    \E t \in Threads :
        /\ req[t].pc = "respond"
        /\ req[t].raw = "Frobnicate x"
        /\ req[t].out.kind = "raise"
        /\ Len(command_history) = 1
        /\ command_history[1].command = "Frobnicate x"
        /\ command_history[1].working_dir = BASE_DIR

====
